---- MODULE Spec2Model ----
(***************************************************************************)
(* Model of the JustAnotherPanel client (src/jap.go): the JAPClient value, *)
(* its five public operations and the shared post helper, as a state       *)
(* machine over a set of callers that share one client.                    *)
(*                                                                         *)
(* encoding/json is modelled by what it does on abstract JSON documents:   *)
(* Marshal builds an object from a struct's fields and their tags          *)
(* (omitempty included), Unmarshal decodes a document into a typed Go      *)
(* value (missing and unknown keys, null, type mismatches, case-folded key *)
(* matching).  strconv.Itoa builds the decimal digits.                     *)
(* client.Do is one exchange as post sees it: the request handed to the    *)
(* transport and the final response (or error) it returns.                 *)
(***************************************************************************)
EXTENDS Integers, Sequences, FiniteSets, TLC

VARIABLES
    client,     \* the JAPClient value: [key, endpoint]
    pc,         \* pc[c]: position of caller c
    entry,      \* entry[c]: the public operation caller c invoked
    op,         \* op[c]: the operation whose body is running
    args,       \* args[c]: the arguments of op[c]
    body,       \* body[c]: the request struct handed to post
    req,        \* req[c]: the *http.Request built by post
    httpc,      \* httpc[c]: identity of the http.Client post allocated (0: none)
    sent,       \* sent[c]: the requests caller c's call handed to the transport
    resp,       \* resp[c]: the *http.Response returned by client.Do
    readErr,    \* readErr[c]: outcome of io.ReadAll
    ret,        \* ret[c]: what post returned, [bytes, err]
    result,     \* result[c]: what the public operation returned, [v, err]
    log         \* log[c]: the steps the current call executed, in order

vars == <<client, pc, entry, op, args, body, req, httpc, sent, resp, readErr,
          ret, result, log>>

-----------------------------------------------------------------------------
(* Bounds *)

NumCallers == 2

Callers == 1..NumCallers

-----------------------------------------------------------------------------
(* JSON documents *)

JNull == [t |-> "null"]
JStr(s) == [t |-> "str", s |-> s]
JBool(b) == [t |-> "bool", b |-> b]
\* A number literal: form "int" is an integer literal within the int range,
\* "frac" a literal with a fraction or exponent, "huge" an integer literal
\* outside the int range; n is the value of an "int" literal.
JNum(form, n) == [t |-> "num", form |-> form, n |-> n]
JInt(n) == JNum("int", n)
JObj(f) == [t |-> "obj", o |-> f]
JArr(a) == [t |-> "arr", a |-> a]
\* A body that is not a JSON text.
NotJSON == [t |-> "invalid"]

EmptyFn == <<>>

-----------------------------------------------------------------------------
(* Go values and types *)

\* A *int argument: nil, or a pointer to an int.
NilPtr == [nil |-> TRUE]
Ptr(i) == [nil |-> FALSE, elem |-> i]

\* Typed Go values handed to json.Marshal.
GoString(s) == [g |-> "string", s |-> s]
GoInt(i) == [g |-> "int", i |-> i]
GoIntPtr(p) == [g |-> "ptr", p |-> p]

\* A struct field of a request: its json tag name, the omitempty option, its value.
Field(name, omitempty, val) == [name |-> name, omitempty |-> omitempty, val |-> val]

\* Type descriptors of the response structures.
TInt == [k |-> "int"]
TString == [k |-> "string"]
TBool == [k |-> "bool"]
TStruct(fields) == [k |-> "struct", fields |-> fields]
TMap(elem) == [k |-> "map", elem |-> elem]
TSlice(elem) == [k |-> "slice", elem |-> elem]

\* nil and non-nil maps and slices.
NilMap == [nil |-> TRUE]
MakeMap(m) == [nil |-> FALSE, m |-> m]
NilSlice == [nil |-> TRUE]
MakeSlice(a) == [nil |-> FALSE, a |-> a]

-----------------------------------------------------------------------------
(* encoding/json: Marshal *)

\* omitempty drops false, 0, a nil pointer and the empty string; a non-nil
\* pointer is never empty, whatever it points to.
IsEmptyValue(val) ==
    CASE val.g = "string" -> val.s = ""
      [] val.g = "int" -> val.i = 0
      [] val.g = "ptr" -> val.p.nil
      [] OTHER -> FALSE

Encodable(val) == val.g \in {"string", "int", "ptr"}

Encode(val) ==
    CASE val.g = "string" -> JStr(val.s)
      [] val.g = "int" -> JInt(val.i)
      [] val.g = "ptr" -> IF val.p.nil THEN JNull ELSE JInt(val.p.elem)
      [] OTHER -> JNull

\* json.Marshal of a struct given as its sequence of fields: [err, json].
Marshal(fields) ==
    LET kept == {i \in DOMAIN fields :
                    ~(fields[i].omitempty /\ IsEmptyValue(fields[i].val))}
        names == {fields[i].name : i \in kept}
        At(n) == CHOOSE i \in kept : fields[i].name = n
    IN  [err |-> \E i \in DOMAIN fields : ~Encodable(fields[i].val),
         json |-> JObj([n \in names |-> Encode(fields[At(n)].val)])]

-----------------------------------------------------------------------------
(* encoding/json: Unmarshal *)

\* Lower-casing of the keys that are not already lower case.
FoldTable ==
    "Order" :> "order" @@ "orderStatus" :> "orderstatus" @@ "Balance" :> "balance"

Fold(s) == IF s \in DOMAIN FoldTable THEN FoldTable[s] ELSE s

\* A key of the document selects the field whose tag it equals, or else the
\* field whose tag it equals under case folding.  Documents are objects with
\* distinct keys, at most one of them selecting any one field.
KeysFor(o, tag) ==
    IF tag \in DOMAIN o THEN {tag} ELSE {k \in DOMAIN o : Fold(k) = Fold(tag)}

RECURSIVE Zero(_)
Zero(ty) ==
    CASE ty.k = "int" -> 0
      [] ty.k = "string" -> ""
      [] ty.k = "bool" -> FALSE
      [] ty.k = "struct" -> [f \in DOMAIN ty.fields |-> Zero(ty.fields[f])]
      [] ty.k = "map" -> NilMap
      [] ty.k = "slice" -> NilSlice

\* Decoding document j into a zero value of type ty: [v, err].  A type
\* mismatch leaves the value as it was and is reported once decoding is over.
RECURSIVE Decode(_, _)
Decode(j, ty) ==
    IF j.t = "null"
    THEN [v |-> Zero(ty), err |-> FALSE]
    ELSE CASE ty.k = "int" ->
                IF j.t = "num" /\ j.form = "int"
                THEN [v |-> j.n, err |-> FALSE]
                ELSE [v |-> 0, err |-> TRUE]
           [] ty.k = "string" ->
                IF j.t = "str"
                THEN [v |-> j.s, err |-> FALSE]
                ELSE [v |-> "", err |-> TRUE]
           [] ty.k = "bool" ->
                IF j.t = "bool"
                THEN [v |-> j.b, err |-> FALSE]
                ELSE [v |-> FALSE, err |-> TRUE]
           [] ty.k = "struct" ->
                IF j.t = "obj"
                THEN LET sub(f) ==
                            LET ks == KeysFor(j.o, f)
                            IN  IF ks = {}
                                THEN [v |-> Zero(ty.fields[f]), err |-> FALSE]
                                ELSE Decode(j.o[CHOOSE k \in ks : TRUE], ty.fields[f])
                     IN  [v |-> [f \in DOMAIN ty.fields |-> sub(f).v],
                          err |-> \E f \in DOMAIN ty.fields : sub(f).err]
                ELSE [v |-> Zero(ty), err |-> TRUE]
           [] ty.k = "map" ->
                IF j.t = "obj"
                THEN [v |-> MakeMap([k \in DOMAIN j.o |-> Decode(j.o[k], ty.elem).v]),
                      err |-> \E k \in DOMAIN j.o : Decode(j.o[k], ty.elem).err]
                ELSE [v |-> NilMap, err |-> TRUE]
           [] ty.k = "slice" ->
                IF j.t = "arr"
                THEN [v |-> MakeSlice([i \in DOMAIN j.a |-> Decode(j.a[i], ty.elem).v]),
                      err |-> \E i \in DOMAIN j.a : Decode(j.a[i], ty.elem).err]
                ELSE [v |-> NilSlice, err |-> TRUE]

\* json.Unmarshal(bytes, &response) with response a zero value: [v, err],
\* err one of "nil", "syntax" (not a JSON text), "type" (shape mismatch).
Unmarshal(bytes, ty) ==
    IF bytes.t = "invalid"
    THEN [v |-> Zero(ty), err |-> "syntax"]
    ELSE LET d == Decode(bytes, ty)
         IN  [v |-> d.v, err |-> IF d.err THEN "type" ELSE "nil"]

-----------------------------------------------------------------------------
(* strconv.Itoa *)

DigitChar == <<"0", "1", "2", "3", "4", "5", "6", "7", "8", "9">>

RECURSIVE Digits(_)
Digits(n) ==
    IF n < 10 THEN <<DigitChar[n + 1]>>
    ELSE Digits(n \div 10) \o <<DigitChar[(n % 10) + 1]>>

Itoa_NoSign(n) == IF n < 0 THEN Digits(-n) ELSE Digits(n)

\* The decimal text of n, as the sequence of its characters.
Itoa(n) == IF n < 0 THEN <<"-">> \o Digits(-n) ELSE Digits(n)

-----------------------------------------------------------------------------
(* The client and its request and response structures *)

Endpoint == "https://justanotherpanel.com/api/v2"

\* New(key)
New(key) == [key |-> key, endpoint |-> Endpoint]

\* The request struct of ListServices.
ListServicesBody(c) ==
    <<Field("key", FALSE, GoString(c.key)),
      Field("action", FALSE, GoString("services"))>>

orderRequest_NoOmitEmpty(c, service, link, quantity, runs, interval) ==
    <<Field("key", FALSE, GoString(c.key)),
      Field("action", FALSE, GoString("add")),
      Field("service", FALSE, GoString(service)),
      Field("link", FALSE, GoString(link)),
      Field("quantity", FALSE, GoInt(quantity)),
      Field("runs", FALSE, GoIntPtr(runs)),
      Field("interval", FALSE, GoIntPtr(interval))>>

\* The request struct of AddOrder.
orderRequest(c, service, link, quantity, runs, interval) ==
    <<Field("key", FALSE, GoString(c.key)),
      Field("action", FALSE, GoString("add")),
      Field("service", FALSE, GoString(service)),
      Field("link", FALSE, GoString(link)),
      Field("quantity", FALSE, GoInt(quantity)),
      Field("runs", TRUE, GoIntPtr(runs)),
      Field("interval", TRUE, GoIntPtr(interval))>>

GetOrderStatusBody_WrongAction(c, orderID) ==
    <<Field("key", FALSE, GoString(c.key)),
      Field("action", FALSE, GoString("add")),
      Field("order", FALSE, GoString(orderID))>>

\* The request struct of GetOrderStatus.
GetOrderStatusBody(c, orderID) ==
    <<Field("key", FALSE, GoString(c.key)),
      Field("action", FALSE, GoString("status")),
      Field("order", FALSE, GoString(orderID))>>

\* The request struct of GetUserBalance.
GetUserBalanceBody(c) ==
    <<Field("key", FALSE, GoString(c.key)),
      Field("action", FALSE, GoString("balance"))>>

RedditUpvoteArgs_ZeroDrip(link, quantity) ==
    [service |-> "6228", link |-> link, quantity |-> quantity,
     runs |-> Ptr(0), interval |-> Ptr(0)]

\* The arguments RedditUpvote hands to AddOrder.
RedditUpvoteArgs(link, quantity) ==
    [service |-> "6228", link |-> link, quantity |-> quantity,
     runs |-> NilPtr, interval |-> NilPtr]

\* type Service
Service ==
    TStruct([service |-> TString, name |-> TString, type |-> TString,
             category |-> TString, rate |-> TString, min |-> TString,
             max |-> TString, refill |-> TBool, cancel |-> TBool])

\* type OrderStatus
OrderStatus ==
    TStruct([charge |-> TString, start_count |-> TString, status |-> TString,
             remains |-> TString, currency |-> TString, error |-> TString])

\* type OrderStatusResponse
OrderStatusResponse == TStruct([orderStatus |-> TMap(OrderStatus)])

\* type UserBalanceResponse
UserBalanceResponse == TStruct([balance |-> TString, currency |-> TString])

\* The response struct of AddOrder.
AddOrderResponse == TStruct([order |-> TInt])

\* What each operation returns once post has returned r = [bytes, err]:
\* [v, err, decoded], v the zero value whenever err is not "nil", decoded
\* telling whether json.Unmarshal was called.
ListServicesReturn(r) ==
    IF r.err # "nil" THEN [v |-> NilSlice, err |-> r.err, decoded |-> FALSE]
    ELSE LET u == Unmarshal(r.bytes, TSlice(Service))
         IN  IF u.err # "nil" THEN [v |-> NilSlice, err |-> u.err, decoded |-> TRUE]
             ELSE [v |-> u.v, err |-> "nil", decoded |-> TRUE]

AddOrderReturn_IgnoreDecodeErr(r) ==
    IF r.err # "nil" THEN [v |-> <<>>, err |-> r.err, decoded |-> FALSE]
    ELSE LET u == Unmarshal(r.bytes, AddOrderResponse)
         IN  [v |-> Itoa(u.v.order), err |-> "nil", decoded |-> TRUE]

AddOrderReturn(r) ==
    IF r.err # "nil" THEN [v |-> <<>>, err |-> r.err, decoded |-> FALSE]
    ELSE LET u == Unmarshal(r.bytes, AddOrderResponse)
         IN  IF u.err # "nil" THEN [v |-> <<>>, err |-> u.err, decoded |-> TRUE]
             ELSE [v |-> Itoa(u.v.order), err |-> "nil", decoded |-> TRUE]

GetOrderStatusReturn_Strict(r) ==
    IF r.err # "nil"
    THEN [v |-> Zero(OrderStatusResponse), err |-> r.err, decoded |-> FALSE]
    ELSE LET u == Unmarshal(r.bytes, OrderStatusResponse)
             unknown == r.bytes.t = "obj" /\ \E k \in DOMAIN r.bytes.o :
                                              Fold(k) # Fold("orderStatus")
         IN  IF u.err # "nil" \/ unknown
             THEN [v |-> Zero(OrderStatusResponse),
                   err |-> IF u.err # "nil" THEN u.err ELSE "type", decoded |-> TRUE]
             ELSE [v |-> u.v, err |-> "nil", decoded |-> TRUE]

GetOrderStatusReturn(r) ==
    IF r.err # "nil" THEN [v |-> Zero(OrderStatusResponse), err |-> r.err, decoded |-> FALSE]
    ELSE LET u == Unmarshal(r.bytes, OrderStatusResponse)
         IN  IF u.err # "nil" THEN [v |-> Zero(OrderStatusResponse), err |-> u.err, decoded |-> TRUE]
             ELSE [v |-> u.v, err |-> "nil", decoded |-> TRUE]

GetUserBalanceReturn(r) ==
    IF r.err # "nil" THEN [v |-> Zero(UserBalanceResponse), err |-> r.err, decoded |-> FALSE]
    ELSE LET u == Unmarshal(r.bytes, UserBalanceResponse)
         IN  IF u.err # "nil" THEN [v |-> Zero(UserBalanceResponse), err |-> u.err, decoded |-> TRUE]
             ELSE [v |-> u.v, err |-> "nil", decoded |-> TRUE]

-----------------------------------------------------------------------------
(* The post helper *)

Nothing == [none |-> TRUE]

\* http.NewRequest fails on a method that is no token or a URL that does not parse.
ValidMethods == {"GET", "POST", "PUT", "DELETE"}
ParseableURLs == {Endpoint}

NewRequest(method, url, bodyJSON) ==
    [err |-> method \notin ValidMethods \/ url \notin ParseableURLs,
     r |-> [method |-> method, url |-> url, header |-> EmptyFn, body |-> bodyJSON]]

HeaderSet(r, k, v) == [r EXCEPT !.header = (k :> v) @@ @]

NewHTTPClient_Shared(c) == 1

\* client := &http.Client{}: a new object in the frame of caller c's call of
\* post, named after that frame; no other frame allocates an object so named.
NewHTTPClient(c) == c

DoFailed_CheckStatus(r) == r.err # "nil" \/ r.status \notin 200..299

\* if err != nil after client.Do: the only test post makes on the exchange.
DoFailed(r) == r.err # "nil"

AfterDo_Retry(r) == IF DoFailed(r) THEN "do" ELSE "read"

\* Where post continues once client.Do has returned r.
AfterDo(r) == IF DoFailed(r) THEN "decode" ELSE "read"

Deferred_OnSuccessOnly(rerr) == IF rerr = "nil" THEN <<"close">> ELSE <<>>

\* defer resp.Body.Close(): runs when post returns, whatever io.ReadAll gave.
Deferred(rerr) == <<"close">>

\* What post returns after io.ReadAll gave rerr.
PostResult(r, rerr) ==
    IF rerr # "nil" THEN [bytes |-> Nothing, err |-> rerr]
    ELSE [bytes |-> r.body, err |-> "nil"]

-----------------------------------------------------------------------------
(* Initial state: the client New(key) returned, every caller idle *)

Keys == {"k1", "k2"}

idleAll == [c \in Callers |-> Nothing]

Start(keys) ==
    /\ \E key \in keys : client = New(key)
    /\ pc = [c \in Callers |-> "idle"]
    /\ entry = idleAll
    /\ op = [c \in Callers |-> "none"]
    /\ args = idleAll
    /\ body = idleAll
    /\ req = idleAll
    /\ httpc = [c \in Callers |-> 0]
    /\ sent = [c \in Callers |-> <<>>]
    /\ resp = idleAll
    /\ readErr = [c \in Callers |-> "nil"]
    /\ ret = idleAll
    /\ result = idleAll
    /\ log = [c \in Callers |-> <<>>]

-----------------------------------------------------------------------------
(* What the upstream may answer *)

ServiceDoc ==
    JObj([service |-> JStr("1"), name |-> JStr("Test"), type |-> JStr("Default"),
          category |-> JStr("Test"), rate |-> JStr("1.00"), min |-> JStr("10"),
          max |-> JStr("1000"), refill |-> JBool(TRUE), cancel |-> JBool(FALSE)])

StatusDoc == JObj([status |-> JStr("Completed"), remains |-> JStr("0")])

ErrorDoc == JObj([error |-> JStr("Incorrect request")])

OrderDoc(n) == JObj([order |-> n])

Bodies ==
    { NotJSON, JNull, JObj(EmptyFn), ErrorDoc,
      OrderDoc(JInt(555)), OrderDoc(JInt(0)), OrderDoc(JInt(-42)),
      OrderDoc(JInt(1000000)), OrderDoc(JNum("frac", 1)), OrderDoc(JNum("huge", 0)),
      OrderDoc(JStr("555")), OrderDoc(JNull), JObj("Order" :> JInt(9)),
      JObj([order |-> JInt(7), error |-> JStr("warning")]),
      JArr(<<>>), JArr(<<ServiceDoc>>), JArr(<<ServiceDoc, ErrorDoc>>),
      JObj([orderStatus |-> JObj("42" :> StatusDoc)]),
      JObj([orderStatus |-> JObj("42" :> JObj([error |-> JStr("Incorrect order ID")]))]),
      StatusDoc,
      JObj([balance |-> JStr("100.84"), currency |-> JStr("USD")]),
      JObj([balance |-> JInt(100)]) }

\* The inputs of sequential use of the client.
Inputs ==
    [concurrent |-> FALSE,
     services |-> {"1", "6228"},
     links |-> {"l1", "l2"},
     quantities |-> {1, 10},
     ptrs |-> {NilPtr, Ptr(0), Ptr(3)},
     orders |-> {"123", "42"},
     statuses |-> {200, 404, 500},
     bodies |-> Bodies,
     doErrs |-> {"transport"},
     readErrs |-> {"nil", "read"}]

\* The inputs of concurrent use of the client.
InputsConc ==
    [concurrent |-> TRUE,
     services |-> {"1"},
     links |-> {"l1"},
     quantities |-> {10},
     ptrs |-> {Ptr(3)},
     orders |-> {"42"},
     statuses |-> {200},
     bodies |-> {OrderDoc(JInt(555)), ErrorDoc},
     doErrs |-> {"transport"},
     readErrs |-> {"nil"}]

-----------------------------------------------------------------------------
(* The public operations, up to their call of post *)

\* A caller may start a call when it is idle and, in sequential use, when no
\* other call is running.
MayCall(c, in) ==
    /\ pc[c] = "idle"
    /\ in.concurrent \/ \A d \in Callers : pc[d] = "idle"

Enter(c, e, o, a, b) ==
    /\ entry' = [entry EXCEPT ![c] = e]
    /\ op' = [op EXCEPT ![c] = o]
    /\ args' = [args EXCEPT ![c] = a]
    /\ body' = [body EXCEPT ![c] = b]
    /\ pc' = [pc EXCEPT ![c] = "post"]
    /\ UNCHANGED <<client, req, httpc, sent, resp, readErr, ret, result, log>>

ListServices(c, in) ==
    /\ MayCall(c, in)
    /\ Enter(c, [name |-> "ListServices"], "ListServices", Nothing,
             ListServicesBody(client))

EnterAddOrder(c, e, a) ==
    Enter(c, e, "AddOrder", a,
          orderRequest(client, a.service, a.link, a.quantity, a.runs, a.interval))

AddOrder(c, in) ==
    /\ MayCall(c, in)
    /\ \E service \in in.services, link \in in.links, quantity \in in.quantities,
          runs \in in.ptrs, interval \in in.ptrs :
          EnterAddOrder(c, [name |-> "AddOrder"],
                        [service |-> service, link |-> link, quantity |-> quantity,
                         runs |-> runs, interval |-> interval])

GetOrderStatus(c, in) ==
    /\ MayCall(c, in)
    /\ \E orderID \in in.orders :
          Enter(c, [name |-> "GetOrderStatus"], "GetOrderStatus",
                [orderID |-> orderID], GetOrderStatusBody(client, orderID))

GetUserBalance(c, in) ==
    /\ MayCall(c, in)
    /\ Enter(c, [name |-> "GetUserBalance"], "GetUserBalance", Nothing,
             GetUserBalanceBody(client))

RedditUpvote(c, in) ==
    /\ MayCall(c, in)
    /\ \E link \in in.links, quantity \in in.quantities :
          EnterAddOrder(c, [name |-> "RedditUpvote", link |-> link,
                            quantity |-> quantity],
                        RedditUpvoteArgs(link, quantity))

-----------------------------------------------------------------------------
(* The steps of post *)

\* json.Marshal, http.NewRequest, Header.Set: the request is built, or post
\* returns the error.
PostBuild(c) ==
    /\ pc[c] = "post"
    /\ LET m == Marshal(body[c])
           n == NewRequest("POST", client.endpoint, m.json)
       IN  IF m.err
           THEN /\ ret' = [ret EXCEPT ![c] = [bytes |-> Nothing, err |-> "marshal"]]
                /\ pc' = [pc EXCEPT ![c] = "decode"]
                /\ log' = [log EXCEPT ![c] = @ \o <<"marshal">>]
                /\ UNCHANGED req
           ELSE IF n.err
           THEN /\ ret' = [ret EXCEPT ![c] = [bytes |-> Nothing, err |-> "newrequest"]]
                /\ pc' = [pc EXCEPT ![c] = "decode"]
                /\ log' = [log EXCEPT ![c] = @ \o <<"marshal", "newrequest">>]
                /\ UNCHANGED req
           ELSE /\ req' = [req EXCEPT ![c] =
                              HeaderSet(n.r, "Content-Type", "application/json")]
                /\ pc' = [pc EXCEPT ![c] = "do"]
                /\ log' = [log EXCEPT ![c] = @ \o <<"marshal", "newrequest">>]
                /\ UNCHANGED ret
    /\ UNCHANGED <<client, entry, op, args, body, httpc, sent, resp, readErr, result>>

\* client := &http.Client{}; client.Do(req): the request goes to the transport.
PostDo(c) ==
    /\ pc[c] = "do"
    /\ LET h == NewHTTPClient(c)
       IN  /\ httpc' = [httpc EXCEPT ![c] = h]
           /\ sent' = [sent EXCEPT ![c] = Append(@, [via |-> h, r |-> req[c]])]
    /\ pc' = [pc EXCEPT ![c] = "wait"]
    /\ log' = [log EXCEPT ![c] = Append(@, "send")]
    /\ UNCHANGED <<client, entry, op, args, body, req, resp, readErr, ret, result>>

\* client.Do returns: a transport error, or a response of any status and body.
PostDoReturn(c, in) ==
    /\ pc[c] = "wait"
    /\ \E r \in [err : in.doErrs] \cup
                [err : {"nil"}, status : in.statuses, body : in.bodies] :
          /\ resp' = [resp EXCEPT ![c] = r]
          /\ pc' = [pc EXCEPT ![c] = AfterDo(r)]
          /\ IF DoFailed(r)
             THEN /\ ret' = [ret EXCEPT ![c] = [bytes |-> Nothing, err |-> r.err]]
                  /\ httpc' = [httpc EXCEPT ![c] = 0]
             ELSE UNCHANGED <<ret, httpc>>
    /\ UNCHANGED <<client, entry, op, args, body, req, sent, readErr, result, log>>

\* io.ReadAll(resp.Body): the whole body, or a read error.
PostReadAll(c, in) ==
    /\ pc[c] = "read"
    /\ \E e \in in.readErrs : readErr' = [readErr EXCEPT ![c] = e]
    /\ pc' = [pc EXCEPT ![c] = "ret"]
    /\ log' = [log EXCEPT ![c] = Append(@, "read")]
    /\ UNCHANGED <<client, entry, op, args, body, req, httpc, sent, resp, ret, result>>

\* post returns: the deferred Close runs and the caller gets (bytes, err).
PostReturn(c) ==
    /\ pc[c] = "ret"
    /\ ret' = [ret EXCEPT ![c] = PostResult(resp[c], readErr[c])]
    /\ log' = [log EXCEPT ![c] = @ \o Deferred(readErr[c])]
    /\ httpc' = [httpc EXCEPT ![c] = 0]
    /\ pc' = [pc EXCEPT ![c] = "decode"]
    /\ UNCHANGED <<client, entry, op, args, body, req, sent, resp, readErr, result>>

-----------------------------------------------------------------------------
(* The public operations, from the return of post *)

Finish(c, o, r) ==
    /\ pc[c] = "decode"
    /\ op[c] = o
    /\ result' = [result EXCEPT ![c] = [v |-> r.v, err |-> r.err]]
    /\ log' = [log EXCEPT ![c] = IF r.decoded THEN Append(@, "unmarshal") ELSE @]
    /\ pc' = [pc EXCEPT ![c] = "done"]
    /\ UNCHANGED <<client, entry, op, args, body, req, httpc, sent, resp, readErr, ret>>

ListServicesFinish(c) == Finish(c, "ListServices", ListServicesReturn(ret[c]))

AddOrderFinish(c) == Finish(c, "AddOrder", AddOrderReturn(ret[c]))

GetOrderStatusFinish(c) == Finish(c, "GetOrderStatus", GetOrderStatusReturn(ret[c]))

GetUserBalanceFinish(c) == Finish(c, "GetUserBalance", GetUserBalanceReturn(ret[c]))

\* The caller takes the result; nothing of the call is kept.
Return(c) ==
    /\ pc[c] = "done"
    /\ pc' = [pc EXCEPT ![c] = "idle"]
    /\ entry' = [entry EXCEPT ![c] = Nothing]
    /\ op' = [op EXCEPT ![c] = "none"]
    /\ args' = [args EXCEPT ![c] = Nothing]
    /\ body' = [body EXCEPT ![c] = Nothing]
    /\ req' = [req EXCEPT ![c] = Nothing]
    /\ sent' = [sent EXCEPT ![c] = <<>>]
    /\ resp' = [resp EXCEPT ![c] = Nothing]
    /\ readErr' = [readErr EXCEPT ![c] = "nil"]
    /\ ret' = [ret EXCEPT ![c] = Nothing]
    /\ result' = [result EXCEPT ![c] = Nothing]
    /\ log' = [log EXCEPT ![c] = <<>>]
    /\ UNCHANGED <<client, httpc>>

-----------------------------------------------------------------------------
(* Specifications *)

Step(c, in) ==
    \/ ListServices(c, in)
    \/ AddOrder(c, in)
    \/ GetOrderStatus(c, in)
    \/ GetUserBalance(c, in)
    \/ RedditUpvote(c, in)
    \/ PostBuild(c)
    \/ PostDo(c)
    \/ PostDoReturn(c, in)
    \/ PostReadAll(c, in)
    \/ PostReturn(c)
    \/ ListServicesFinish(c)
    \/ AddOrderFinish(c)
    \/ GetOrderStatusFinish(c)
    \/ GetUserBalanceFinish(c)
    \/ Return(c)

\* Sequential use: one call at a time, every input.
Next == \E c \in Callers : Step(c, Inputs)

Init == Start(Keys)

Spec == Init /\ [][Next]_vars

\* Concurrent use: every caller may have a call running.
NextConc == \E c \in Callers : Step(c, InputsConc)

SpecConc == Init /\ [][NextConc]_vars

-----------------------------------------------------------------------------
(* Vocabulary of the properties *)

\* The call of caller c has handed a request to the transport.
HasSent(c) == Len(sent[c]) >= 1

\* The JSON object of the request caller c sent, as a function of its keys.
Payload(c) == sent[c][1].r.body.o

\* client.Do has returned to caller c, with a response / with an error.
GotResponse(c) == pc[c] \in {"read", "ret", "decode", "done"} /\ resp[c] # Nothing
                  /\ resp[c].err = "nil"
DoError(c) == pc[c] \in {"decode", "done"} /\ resp[c] # Nothing /\ resp[c].err # "nil"

\* post has returned the response body to caller c's operation.
BodyRead(c) == pc[c] \in {"decode", "done"} /\ GotResponse(c) /\ readErr[c] = "nil"

Returned(c) == pc[c] = "done"

\* No key of object o selects the field tagged tag.
LacksField(o, tag) == \A k \in DOMAIN o : Fold(k) # Fold(tag)

Count(seq, x) == Cardinality({i \in DOMAIN seq : seq[i] = x})

\* The steps of a call, in the order the design gives.
StepOrder == <<"marshal", "newrequest", "send", "read", "close", "unmarshal">>

Position(x) == CHOOSE i \in DOMAIN StepOrder : StepOrder[i] = x

\* Every step at most once, and in the order of StepOrder.
InOrder(seq) == \A i, j \in DOMAIN seq : i < j => Position(seq[i]) < Position(seq[j])

\* The value of a decimal text, and whether it is the canonical one.
DigitValue(ch) == (CHOOSE i \in DOMAIN DigitChar : DigitChar[i] = ch) - 1

IsDigit(ch) == \E i \in DOMAIN DigitChar : DigitChar[i] = ch

RECURSIVE NatValue(_)
NatValue(ds) ==
    IF ds = <<>> THEN 0
    ELSE 10 * NatValue(SubSeq(ds, 1, Len(ds) - 1)) + DigitValue(ds[Len(ds)])

IsDecimalOf(str, n) ==
    LET ds == IF n < 0 THEN Tail(str) ELSE str
    IN  /\ Len(str) >= 1
        /\ n < 0 => str[1] = "-"
        /\ Len(ds) >= 1
        /\ \A i \in DOMAIN ds : IsDigit(ds[i])
        /\ Len(ds) > 1 => ds[1] # "0"
        /\ NatValue(ds) = (IF n < 0 THEN -n ELSE n)

-----------------------------------------------------------------------------
(* C1 *)

\* The field tag is in the payload o exactly when the pointer p is not nil,
\* and then it is the integer p points to.
OptionalSent(o, tag, p) ==
    /\ tag \in DOMAIN o <=> ~p.nil
    /\ ~p.nil => o[tag] = JInt(p.elem)

\* C1: in every request AddOrder sends, runs is present iff the runs argument
\* is non-nil and then carries exactly its value (0 included), and likewise,
\* independently, interval; a nil argument's field is absent, never null or 0.
C1_OptionalFields ==
    \A c \in Callers :
        (op[c] = "AddOrder" /\ HasSent(c)) =>
            /\ OptionalSent(Payload(c), "runs", args[c].runs)
            /\ OptionalSent(Payload(c), "interval", args[c].interval)

\* A request went out with runs pointing to 0 and interval nil.
C1_Witness ==
    \E c \in Callers :
        /\ op[c] = "AddOrder" /\ HasSent(c)
        /\ args[c].runs = Ptr(0) /\ args[c].interval = NilPtr
        /\ DOMAIN Payload(c) = {"key", "action", "service", "link", "quantity", "runs"}
        /\ Payload(c)["runs"] = JInt(0)

-----------------------------------------------------------------------------
(* C2 *)

\* The body AddOrder got is a JSON object with no `order` field.
NoOrderField(c) ==
    /\ BodyRead(c)
    /\ resp[c].body.t = "obj"
    /\ LacksField(resp[c].body.o, "order")

\* C2 as stated: AddOrder returns an error when the transport fails, when the
\* body is not JSON, and when the body is JSON without an `order` field.
C2_FailsWithoutOrder ==
    \A c \in Callers :
        (Returned(c) /\ op[c] = "AddOrder") =>
            /\ DoError(c) => result[c].err # "nil"
            /\ (BodyRead(c) /\ resp[c].body = NotJSON) => result[c].err # "nil"
            /\ NoOrderField(c) => result[c].err # "nil"

\* C2 amended: AddOrder returns an error when the transport fails, when the
\* body cannot be read and when the body is not JSON; for a JSON object with
\* no `order` field it returns the order id "0" and no error.
C2_ZeroWithoutOrder ==
    \A c \in Callers :
        (Returned(c) /\ op[c] = "AddOrder") =>
            /\ DoError(c) => (result[c].err = "transport" /\ result[c].v = <<>>)
            /\ (GotResponse(c) /\ readErr[c] # "nil") =>
                    (result[c].err = "read" /\ result[c].v = <<>>)
            /\ (BodyRead(c) /\ resp[c].body = NotJSON) =>
                    (result[c].err = "syntax" /\ result[c].v = <<>>)
            /\ NoOrderField(c) => (result[c].err = "nil" /\ result[c].v = <<"0">>)

\* AddOrder returned "0" and no error for the body {"error": "..."}.
C2_Witness ==
    \E c \in Callers :
        /\ Returned(c) /\ entry[c].name = "AddOrder"
        /\ BodyRead(c) /\ resp[c].body = ErrorDoc
        /\ result[c].err = "nil" /\ result[c].v = <<"0">>

-----------------------------------------------------------------------------
(* C3 *)

\* What operation o returns for the bytes b, by its own deserialization.
Deserialized(o, b) ==
    LET r == [bytes |-> b, err |-> "nil"]
    IN  CASE o = "ListServices" -> ListServicesReturn(r)
          [] o = "AddOrder" -> AddOrderReturn(r)
          [] o = "GetOrderStatus" -> GetOrderStatusReturn(r)
          [] o = "GetUserBalance" -> GetUserBalanceReturn(r)

\* C3: whatever the status code, the body that was read is what post returns
\* and what the operation deserializes, and the outcome is the one that body
\* alone determines.
C3_StatusIgnored ==
    \A c \in Callers :
        /\ BodyRead(c) => (ret[c].err = "nil" /\ ret[c].bytes = resp[c].body)
        /\ (Returned(c) /\ BodyRead(c)) =>
              LET d == Deserialized(op[c], resp[c].body)
              IN  /\ Count(log[c], "unmarshal") = 1
                  /\ result[c].err = d.err
                  /\ d.err = "nil" => result[c].v = d.v

\* A 500 response with a decodable body gave a successful result.
C3_Witness ==
    \E c \in Callers :
        /\ Returned(c) /\ BodyRead(c)
        /\ resp[c].status = 500
        /\ op[c] = "GetUserBalance"
        /\ result[c].err = "nil" /\ result[c].v.balance = "100.84"

-----------------------------------------------------------------------------
(* C4 *)

\* C4: a call hands at most one request to the transport, runs its steps in
\* the order serialize, send, read, deserialize, each at most once, and ends
\* at the first failing step with that step's error, no later step executed.
C4_NoRetry ==
    \A c \in Callers :
        /\ Len(sent[c]) <= 1
        /\ Count(log[c], "send") = Len(sent[c])
        /\ InOrder(log[c])
        /\ Returned(c) =>
              /\ DoError(c) =>
                    /\ result[c].err = "transport"
                    /\ log[c] = <<"marshal", "newrequest", "send">>
              /\ (GotResponse(c) /\ readErr[c] # "nil") =>
                    /\ result[c].err = "read"
                    /\ log[c] = <<"marshal", "newrequest", "send", "read", "close">>
              /\ BodyRead(c) =>
                    /\ result[c].err \in {"nil", "syntax", "type"}
                    /\ log[c] = StepOrder

\* A call whose exchange failed has returned the transport error.
C4_Witness ==
    \E c \in Callers :
        /\ Returned(c) /\ DoError(c)
        /\ entry[c].name = "ListServices"
        /\ result[c].err = "transport" /\ Len(sent[c]) = 1

-----------------------------------------------------------------------------
(* C5 *)

\* C5: RedditUpvote(link, quantity) runs AddOrder with service "6228", the
\* same link and quantity and nil runs and interval: its payload is exactly
\* key, action "add", service, link, quantity, and its result is AddOrder's
\* for the response received.
C5_RedditUpvote ==
    \A c \in Callers :
        (entry[c] # Nothing /\ entry[c].name = "RedditUpvote") =>
            /\ op[c] = "AddOrder"
            /\ args[c].service = "6228"
            /\ args[c].link = entry[c].link
            /\ args[c].quantity = entry[c].quantity
            /\ args[c].runs = NilPtr /\ args[c].interval = NilPtr
            /\ HasSent(c) =>
                  Payload(c) = [key |-> JStr(client.key), action |-> JStr("add"),
                                service |-> JStr("6228"), link |-> JStr(entry[c].link),
                                quantity |-> JInt(entry[c].quantity)]
            /\ (Returned(c) /\ BodyRead(c)) =>
                  LET d == Deserialized("AddOrder", resp[c].body)
                  IN  result[c].err = d.err /\ result[c].v = d.v
            /\ (Returned(c) /\ ~BodyRead(c)) => result[c].err \in {"transport", "read"}

\* RedditUpvote returned the order id of the response.
C5_Witness ==
    \E c \in Callers :
        /\ Returned(c) /\ entry[c].name = "RedditUpvote"
        /\ BodyRead(c) /\ resp[c].body = OrderDoc(JInt(555))
        /\ result[c].err = "nil" /\ result[c].v = <<"5", "5", "5">>

-----------------------------------------------------------------------------
(* C6 *)

ActionOf(name) ==
    CASE name = "ListServices" -> "services"
      [] name = "AddOrder" -> "add"
      [] name = "RedditUpvote" -> "add"
      [] name = "GetOrderStatus" -> "status"
      [] name = "GetUserBalance" -> "balance"

\* C6: every request carries the key given to New and the action of the
\* operation called; GetOrderStatus(id) sends exactly key, action "status"
\* and order = id.
C6_KeyAndAction ==
    \A c \in Callers :
        HasSent(c) =>
            /\ "key" \in DOMAIN Payload(c) /\ Payload(c)["key"] = JStr(client.key)
            /\ "action" \in DOMAIN Payload(c)
            /\ Payload(c)["action"] = JStr(ActionOf(entry[c].name))
            /\ entry[c].name = "GetOrderStatus" =>
                  Payload(c) = [key |-> JStr(client.key), action |-> JStr("status"),
                                order |-> JStr(args[c].orderID)]

\* GetOrderStatus("123") has sent its three fields.
C6_Witness ==
    \E c \in Callers :
        /\ HasSent(c) /\ entry[c].name = "GetOrderStatus"
        /\ args[c].orderID = "123"
        /\ DOMAIN Payload(c) = {"key", "action", "order"}
        /\ Payload(c)["order"] = JStr("123")

-----------------------------------------------------------------------------
(* C7 *)

\* The body AddOrder got is exactly {"order": N}, N an integer literal in
\* the int range.
OrderBody(c) ==
    /\ BodyRead(c)
    /\ resp[c].body.t = "obj"
    /\ DOMAIN resp[c].body.o = {"order"}
    /\ resp[c].body.o["order"].t = "num"
    /\ resp[c].body.o["order"].form = "int"

\* C7: for the body {"order": N} AddOrder returns no error and the decimal
\* text of N: its digits, a leading "-" for a negative N, no leading zero;
\* {"order": 555} gives "555".
C7_DecimalOrderID ==
    \A c \in Callers :
        (Returned(c) /\ op[c] = "AddOrder" /\ OrderBody(c)) =>
            /\ result[c].err = "nil"
            /\ IsDecimalOf(result[c].v, resp[c].body.o["order"].n)
            /\ resp[c].body = OrderDoc(JInt(555)) => result[c].v = <<"5", "5", "5">>

\* AddOrder returned "-42" for {"order": -42}, or "1000000" for {"order": 1000000}.
C7_Witness ==
    \E c \in Callers :
        /\ Returned(c) /\ entry[c].name = "AddOrder" /\ OrderBody(c)
        /\ \/ resp[c].body.o["order"].n = -42 /\ result[c].v = <<"-", "4", "2">>
           \/ resp[c].body.o["order"].n = 1000000
                /\ result[c].v = <<"1", "0", "0", "0", "0", "0", "0">>

-----------------------------------------------------------------------------
(* C9 *)

\* "read" stands before "close" in seq.
ReadBeforeClose(seq) ==
    \A j \in DOMAIN seq : seq[j] = "close" => \E i \in 1..(j - 1) : seq[i] = "read"

\* C9: once post has returned after an exchange that produced a response,
\* the body has been closed exactly once, read error or not; it is not closed
\* before the read was attempted nor while post is still running; after a
\* failed exchange it is never closed.
C9_BodyClosedOnce ==
    \A c \in Callers :
        /\ Count(log[c], "close") <= 1
        /\ ReadBeforeClose(log[c])
        /\ (GotResponse(c) /\ pc[c] \in {"decode", "done"}) => Count(log[c], "close") = 1
        /\ pc[c] \in {"post", "do", "wait", "read", "ret"} => Count(log[c], "close") = 0
        /\ DoError(c) => Count(log[c], "close") = 0

\* post has returned after a failed read, the body closed.
C9_Witness ==
    \E c \in Callers :
        /\ pc[c] = "decode" /\ GotResponse(c) /\ readErr[c] = "read"
        /\ ret[c].err = "read"
        /\ log[c] = <<"marshal", "newrequest", "send", "read", "close">>

-----------------------------------------------------------------------------
(* C10 *)

\* The body is a JSON object with none of the fields in tags.
NoneOf(c, tags) ==
    /\ BodyRead(c)
    /\ resp[c].body.t = "obj"
    /\ \A tag \in tags : LacksField(resp[c].body.o, tag)

\* C10: GetOrderStatus and GetUserBalance return no error and a zero-valued
\* structure (nil status mapping; empty balance and currency) for a JSON
\* object with none of their expected fields.
C10_ZeroValueOnMismatch ==
    \A c \in Callers :
        /\ (Returned(c) /\ op[c] = "GetOrderStatus" /\ NoneOf(c, {"orderStatus"})) =>
              /\ result[c].err = "nil"
              /\ result[c].v.orderStatus = NilMap
        /\ (Returned(c) /\ op[c] = "GetUserBalance"
                /\ NoneOf(c, {"balance", "currency"})) =>
              /\ result[c].err = "nil"
              /\ result[c].v.balance = "" /\ result[c].v.currency = ""

\* GetOrderStatus got a flat status object and returned the zero value;
\* or GetUserBalance got {"error": "..."} and returned the zero value.
C10_Witness ==
    \E c \in Callers :
        /\ Returned(c) /\ BodyRead(c) /\ result[c].err = "nil"
        /\ \/ op[c] = "GetOrderStatus" /\ resp[c].body = StatusDoc
                /\ result[c].v.orderStatus = NilMap
           \/ op[c] = "GetUserBalance" /\ resp[c].body = ErrorDoc
                /\ result[c].v.balance = ""

-----------------------------------------------------------------------------
(* C8 *)

\* The struct an operation hands to post, from the client and the arguments.
RequestOf(c) ==
    CASE op[c] = "ListServices" -> ListServicesBody(client)
      [] op[c] = "AddOrder" ->
            orderRequest(client, args[c].service, args[c].link, args[c].quantity,
                         args[c].runs, args[c].interval)
      [] op[c] = "GetOrderStatus" -> GetOrderStatusBody(client, args[c].orderID)
      [] op[c] = "GetUserBalance" -> GetUserBalanceBody(client)

\* What a call returns when it runs alone and the upstream answers r, the
\* body read with outcome rerr.
AloneResult(o, r, rerr) ==
    IF r.err # "nil"
    THEN [err |-> r.err]
    ELSE IF rerr # "nil"
    THEN [err |-> rerr]
    ELSE Deserialized(o, r.body)

\* Calls in flight at the same time use different http.Client objects, and
\* a call's request and result are those of the call running alone.
Isolated ==
    \A c \in Callers :
        /\ \A d \in Callers \ {c} :
              /\ (httpc[c] # 0 /\ httpc[d] # 0) => httpc[c] # httpc[d]
              /\ (HasSent(c) /\ HasSent(d)) => sent[c][1].via # sent[d][1].via
        /\ pc[c] \in {"wait", "read", "ret"} <=> httpc[c] # 0
        /\ HasSent(c) =>
              /\ Len(sent[c]) = 1
              /\ sent[c][1].r.method = "POST"
              /\ sent[c][1].r.url = Endpoint
              /\ sent[c][1].r.header = [k \in {"Content-Type"} |-> "application/json"]
              /\ sent[c][1].r.body = Marshal(RequestOf(c)).json
        /\ Returned(c) =>
              LET a == AloneResult(op[c], resp[c], readErr[c])
              IN  /\ result[c].err = a.err
                  /\ a.err = "nil" => result[c].v = a.v

\* C8: with calls running concurrently, the client's key and endpoint are
\* never written, every call in flight uses its own http.Client, and each
\* call sends the request and returns the result it would running alone.
C8_ConcurrentCalls ==
    /\ [](client.endpoint = Endpoint /\ Isolated)
    /\ [][client' = client]_vars

\* Two calls are in flight at once, one answered with an order id and
\* returned, the other still waiting with its own http.Client.
C8_Witness ==
    \E c, d \in Callers :
        /\ c # d
        /\ Returned(c) /\ op[c] = "AddOrder" /\ BodyRead(c)
        /\ result[c].err = "nil" /\ result[c].v = <<"5", "5", "5">>
        /\ pc[d] = "wait" /\ op[d] = "GetUserBalance" /\ httpc[d] # 0
        /\ sent[c][1].via # sent[d][1].via

====
